---- MODULE Spec2Model ----
(***************************************************************************)
(* Model of ext/tokenizers/src/models.rs: the shared model handle          *)
(* (Arc<RwLock<ModelWrapper>>), the Model trait operations that lock it,   *)
(* and the constructors of the four model variants.                        *)
(*                                                                         *)
(* The tokenizers crate (tk::models) is an external collaborator: its     *)
(* builders' build step, its file readers and its lookups are modelled     *)
(* from the specification and are marked as such where they are defined.   *)
(***************************************************************************)
EXTENDS Integers, Naturals, Sequences, FiniteSets, TLC

\* ------------------------------------------------------------------ bounds
MaxId == 1
MaxKwargs == 2
MaxUnigram == 2
MaxOps == 2

\* ------------------------------------------------------------- Option<T>
\* Option<T> is a set with no element (None) or one element (Some(x)).
None == {}
Some(x) == {x}
IsSome(o) == o # {}
Get(o) == CHOOSE x \in o : TRUE

\* ----------------------------------------------------------- input values
Tokens == {"a", "b"}
Ids == 0 .. MaxId
EmptyVocab == [t \in {} |-> 0]
\* HashMap<String, u32>: any caller-supplied mapping, injective or not.
Vocabs == UNION {[D -> Ids] : D \in SUBSET Tokens}
MergesSet == {<<>>, <<"ab">>}
\* Vec<(String, f64)>: the token column; the scores do not decide any claim.
UnigramVocabs == {l \in UNION {[1 .. n -> Tokens] : n \in 0 .. MaxUnigram} :
                      \A i, j \in DOMAIN l : l[i] = l[j] => i = j}
UnkIds == 0 .. MaxUnigram
\* The order in which the HashMap hands out its entries when a reverse table
\* is collected from it: unspecified, any order can occur.
Orders == {s \in [1 .. Cardinality(Tokens) -> Tokens] : \A t \in Tokens : \E i \in DOMAIN s : s[i] = t}

\* Value of a keyword: nil, convertible to the option's type, or not.
Vals == {"nil", "good", "bad"}
BPEKeys == <<"cache_capacity", "dropout", "unk_token", "continuing_subword_prefix", "end_of_word_suffix", "fuse_unk">>
WordPieceKeys == <<"unk_token", "max_input_chars_per_word", "continuing_subword_prefix">>
Range(s) == {s[i] : i \in DOMAIN s}
\* Keys the enumerated calls draw from: recognized by both, by one, by none.
InputKeys == {"dropout", "unk_token", "max_input_chars_per_word", "bogus"}
KwargsSet == UNION {[D -> Vals] : D \in {S \in SUBSET InputKeys : Cardinality(S) <= MaxKwargs}}
EmptyKwargs == [k \in {} |-> "nil"]

\* A file on disk as the reader sees it: unreadable, malformed, or parsed.
Files == {[status |-> s, vocab |-> EmptyVocab, merges |-> <<>>] : s \in {"ioerr", "malformed"}}
           \cup {[status |-> "ok", vocab |-> v, merges |-> m] : v \in Vocabs, m \in MergesSet}

\* What the external crate decides on its own: the verdict of a builder's
\* build step and the iteration order of the vocabulary HashMap.
Exts == [buildOk : BOOLEAN, order : Orders]

\* -------------------------------------------------------------- results
\* RbResult<RbModel>: Ok(model) or Err(kind), with the builder steps and
\* external calls the constructor went through, in order.
Ok(m, trace) == [ok |-> TRUE, err |-> "", model |-> Some(m), trace |-> trace]
Err(kind, trace) == [ok |-> FALSE, err |-> kind, model |-> None, trace |-> trace]

\* ---------------------------------------------------------- tk (external)
\* Reverse table collected from the vocabulary: on a shared id the entry
\* the HashMap hands out last wins.
Pos(order, t) == CHOOSE i \in DOMAIN order : order[i] = t
Inverse(vocab, order) ==
    [i \in {vocab[t] : t \in DOMAIN vocab} |->
        CHOOSE t \in DOMAIN vocab : /\ vocab[t] = i
                                    /\ \A u \in DOMAIN vocab : vocab[u] = i => Pos(order, u) <= Pos(order, t)]

NewBuilder == [vocab |-> EmptyVocab, merges |-> <<>>, opts |-> EmptyKwargs]

MkModel(variant, b, ext) ==
    [variant |-> variant, vocab |-> b.vocab, vocab_r |-> Inverse(b.vocab, ext.order),
     merges |-> b.merges, opts |-> b.opts]

\* builder.build(): the terminal step; either a whole model or an error. A
\* builder nothing was set on always builds (the empty model); otherwise
\* the verdict is the external crate's.
BuilderBuild(variant, b, ext, trace) ==
    IF ext.buildOk \/ b = NewBuilder THEN Ok(MkModel(variant, b, ext), Append(trace, "build"))
    ELSE Err("BuildError", Append(trace, "build"))

\* BPE::read_file, WordLevel::read_file, WordPiece::read_file.
ReadFile(file) == file.status = "ok"
ReadError(file) == IF file.status = "ioerr" THEN "IOError" ELSE "FileFormatError"

\* Unigram::from(vocab, unk_id): an unk_id that is no index of vocab fails.
UnigramIndex(list, t) == CHOOSE i \in DOMAIN list : list[i] = t /\ \A j \in DOMAIN list : list[j] = t => j <= i
UnigramFrom(list, unk_id, trace) ==
    IF IsSome(unk_id) /\ Get(unk_id) >= Len(list) THEN Err("UnigramError", Append(trace, "Unigram::from"))
    ELSE Ok([variant |-> "Unigram",
             vocab |-> [t \in Range(list) |-> UnigramIndex(list, t) - 1],
             vocab_r |-> [i \in 0 .. Len(list) - 1 |-> list[i + 1]],
             merges |-> <<>>, opts |-> EmptyKwargs], Append(trace, "Unigram::from"))
UnigramDefault ==
    [variant |-> "Unigram", vocab |-> EmptyVocab, vocab_r |-> [i \in {} |-> "a"],
     merges |-> <<>>, opts |-> EmptyKwargs]

\* ------------------------------------------------------- keyword options
\* One `kwargs.delete(key)` + `if !value.is_nil() { builder.key(try_convert?) }`
\* block per recognized key, in the order of the source; st carries the
\* builder's options, what is left of kwargs, the error and the trace.
RECURSIVE ApplyOptions(_, _, _)
ApplyOptions(keys, i, st) ==
    IF i > Len(keys) \/ st.err # "" THEN st
    ELSE LET k == keys[i]
             value == IF k \in DOMAIN st.kwargs THEN st.kwargs[k] ELSE "nil"
             rest == [x \in DOMAIN st.kwargs \ {k} |-> st.kwargs[x]]
         IN  IF value = "nil" THEN ApplyOptions(keys, i + 1, [st EXCEPT !.kwargs = rest])
             ELSE IF value = "bad" THEN [st EXCEPT !.kwargs = rest, !.err = "TypeError"]
             ELSE ApplyOptions(keys, i + 1,
                      [st EXCEPT !.kwargs = rest,
                                 !.opts = [x \in DOMAIN st.opts \cup {k} |-> IF x = k THEN value ELSE st.opts[x]],
                                 !.trace = Append(st.trace, k)])

\* `if !kwargs.is_empty() { return Err(arg_error, "unknown keyword") }`
KwargsLeft(st) == DOMAIN st.kwargs # {}

\* with_builder without the unknown-keyword check.
WithBuilderNoUnknownCheck(variant, keys, builder, kwargs, ext, trace) ==
    LET st == ApplyOptions(keys, 1, [err |-> "", opts |-> builder.opts, kwargs |-> kwargs, trace |-> trace])
    IN  IF st.err # "" THEN Err(st.err, st.trace)
        ELSE BuilderBuild(variant, [builder EXCEPT !.opts = st.opts], ext, st.trace)

\* RbBPE::with_builder / RbWordPiece::with_builder
WithBuilder(variant, keys, builder, kwargs, ext, trace) ==
    LET st == ApplyOptions(keys, 1, [err |-> "", opts |-> builder.opts, kwargs |-> kwargs, trace |-> trace])
    IN  IF st.err # "" THEN Err(st.err, st.trace)
        ELSE IF KwargsLeft(st) THEN Err("ArgumentError", st.trace)
        ELSE BuilderBuild(variant, [builder EXCEPT !.opts = st.opts], ext, st.trace)

\* ----------------------------------------------------------- constructors
\* RbBPE::new
BPENew(vocab, merges, kwargs, ext, trace) ==
    IF IsSome(vocab) /\ IsSome(merges)
    THEN WithBuilder("BPE", BPEKeys, [NewBuilder EXCEPT !.vocab = Get(vocab), !.merges = Get(merges)],
                     kwargs, ext, Append(trace, "vocab_and_merges"))
    ELSE WithBuilder("BPE", BPEKeys, NewBuilder, kwargs, ext, trace)

\* from_file that goes on with empty tables when the read fails.
BPEFromFileNoReadCheck(file, kwargs, ext) ==
    BPENew(Some(file.vocab), Some(file.merges), kwargs, ext, <<"read_file">>)

\* RbBPE::from_file
BPEFromFile(file, kwargs, ext) ==
    IF ~ReadFile(file) THEN Err(ReadError(file), <<"read_file">>)
    ELSE BPENew(Some(file.vocab), Some(file.merges), kwargs, ext, <<"read_file">>)

\* RbUnigram::new that takes an unk_id without vocab for the default model.
UnigramNewDeferred(vocab, unk_id) ==
    IF IsSome(vocab) THEN UnigramFrom(Get(vocab), unk_id, <<>>)
    ELSE Ok(UnigramDefault, <<>>)

\* RbUnigram::new
UnigramNew(vocab, unk_id) ==
    IF IsSome(vocab) THEN UnigramFrom(Get(vocab), unk_id, <<>>)
    ELSE IF unk_id = None THEN Ok(UnigramDefault, <<>>)
    ELSE Err("ArgumentError", <<>>)

\* RbWordLevel::new
WordLevelNew(vocab, unk_token, ext, trace) ==
    LET b1 == IF IsSome(vocab) THEN [NewBuilder EXCEPT !.vocab = Get(vocab)] ELSE NewBuilder
        t1 == IF IsSome(vocab) THEN Append(trace, "vocab") ELSE trace
        b2 == IF IsSome(unk_token) THEN [b1 EXCEPT !.opts = [k \in {"unk_token"} |-> Get(unk_token)]] ELSE b1
        t2 == IF IsSome(unk_token) THEN Append(t1, "unk_token") ELSE t1
    IN  BuilderBuild("WordLevel", b2, ext, t2)

\* RbWordLevel::from_file
WordLevelFromFile(file, unk_token, ext) ==
    IF ~ReadFile(file) THEN Err(ReadError(file), <<"read_file">>)
    ELSE WordLevelNew(Some(file.vocab), unk_token, ext, <<"read_file">>)

\* RbWordPiece::new
WordPieceNew(vocab, kwargs, ext, trace) ==
    IF IsSome(vocab)
    THEN WithBuilder("WordPiece", WordPieceKeys, [NewBuilder EXCEPT !.vocab = Get(vocab)],
                     kwargs, ext, Append(trace, "vocab"))
    ELSE WithBuilder("WordPiece", WordPieceKeys, NewBuilder, kwargs, ext, trace)

\* RbWordPiece::from_file
WordPieceFromFile(file, kwargs, ext) ==
    IF ~ReadFile(file) THEN Err(ReadError(file), <<"read_file">>)
    ELSE WordPieceNew(Some(file.vocab), kwargs, ext, <<"read_file">>)

\* ------------------------------------------------------- constructor calls
NoFile == [status |-> "none", vocab |-> EmptyVocab, merges |-> <<>>]
OptVocabs == {None} \cup {Some(v) : v \in Vocabs}
OptMerges == {None} \cup {Some(m) : m \in MergesSet}
OptLists == {None} \cup {Some(l) : l \in UnigramVocabs}
OptUnkIds == {None} \cup {Some(i) : i \in UnkIds}
OptUnkTokens == {None, Some("good")}

MkCall(entry, vocab, merges, kwargs, list, unk_id, unk_token, file) ==
    [entry |-> entry, vocab |-> vocab, merges |-> merges, kwargs |-> kwargs,
     list |-> list, unk_id |-> unk_id, unk_token |-> unk_token, file |-> file]

\* The singleton methods `models` registers: _new and _from_file per class.
Calls ==
    {MkCall("BPE.new", v, m, k, None, None, None, NoFile) : v \in OptVocabs, m \in OptMerges, k \in KwargsSet}
    \cup {MkCall("BPE.from_file", None, None, k, None, None, None, f) : k \in KwargsSet, f \in Files}
    \cup {MkCall("Unigram.new", None, None, EmptyKwargs, l, u, None, NoFile) : l \in OptLists, u \in OptUnkIds}
    \cup {MkCall("WordLevel.new", v, None, EmptyKwargs, None, None, u, NoFile) : v \in OptVocabs, u \in OptUnkTokens}
    \cup {MkCall("WordLevel.from_file", None, None, EmptyKwargs, None, None, u, f) : u \in OptUnkTokens, f \in Files}
    \cup {MkCall("WordPiece.new", v, None, k, None, None, None, NoFile) : v \in OptVocabs, k \in KwargsSet}
    \cup {MkCall("WordPiece.from_file", None, None, k, None, None, None, f) : k \in KwargsSet, f \in Files}

Construct(c, ext) ==
    CASE c.entry = "BPE.new" -> BPENew(c.vocab, c.merges, c.kwargs, ext, <<>>)
      [] c.entry = "BPE.from_file" -> BPEFromFile(c.file, c.kwargs, ext)
      [] c.entry = "Unigram.new" -> UnigramNew(c.list, c.unk_id)
      [] c.entry = "WordLevel.new" -> WordLevelNew(c.vocab, c.unk_token, ext, <<>>)
      [] c.entry = "WordLevel.from_file" -> WordLevelFromFile(c.file, c.unk_token, ext)
      [] c.entry = "WordPiece.new" -> WordPieceNew(c.vocab, c.kwargs, ext, <<>>)
      [] c.entry = "WordPiece.from_file" -> WordPieceFromFile(c.file, c.kwargs, ext)

\* ------------------------------------------------- ModelWrapper dispatch
\* class_for with every arm returning the BPE class.
ClassForAlwaysBPE(m) == "BPE"

\* RbModel::class_for: the host class of the active variant.
ClassFor(m) ==
    CASE m.variant = "BPE" -> "BPE"
      [] m.variant = "Unigram" -> "Unigram"
      [] m.variant = "WordLevel" -> "WordLevel"
      [] m.variant = "WordPiece" -> "WordPiece"

\* tk lookups, dispatched by ModelWrapper to the active variant.
TokenToId(m, t) == IF t \in DOMAIN m.vocab THEN Some(m.vocab[t]) ELSE None
IdToToken(m, i) == IF i \in DOMAIN m.vocab_r THEN Some(m.vocab_r[i]) ELSE None
GetVocab(m) == m.vocab
GetVocabSize(m) == Cardinality(DOMAIN m.vocab)
\* The segmentation engines are out of scope: a word is looked up whole.
Segment(m, w) == IF w \in DOMAIN m.vocab THEN <<[value |-> w, id |-> m.vocab[w]]>> ELSE <<>>
SavePaths(m) == IF m.variant = "BPE" THEN <<"vocab.json", "merges.txt">> ELSE <<"vocab">>
GetTrainer(m) == [trainer |-> m.variant]
\* getter!(self, BPE, unk_token.clone())
UnkToken(m) == IF "unk_token" \in DOMAIN m.opts THEN Some(m.opts["unk_token"]) ELSE None

\* ------------------------------------------------------------------ state
VARIABLES
    ctor,      \* the constructor call made and its RbResult (None before it)
    model,     \* the ModelWrapper inside Arc<RwLock<..>> (None: no handle)
    klass,     \* host class given to the wrapped handle by class_for
    readers,   \* RwLock: threads holding a read guard
    writer,    \* RwLock: the thread holding the write guard, if any
    poisoned,  \* RwLock: a write guard was dropped during a panic
    pc,        \* per thread: "idle", "lock" (requesting the lock), "cs"
    op,        \* per thread: the operation in progress or last returned
    res,       \* per thread: what the last operation returned
    nops,      \* per thread: operations invoked so far
    cache,     \* the BPE variant's merge cache
    probe      \* last token -> id -> token round trip made by the caller

vars == <<ctor, model, klass, readers, writer, poisoned, pc, op, res, nops, cache, probe>>
lockVars == <<readers, writer, poisoned>>
threadVars == <<pc, op, res, nops>>

\* Holders of a clone of the handle (RbModel derives Clone: clones share the Arc).
Threads == {"t1", "t2"}

NoOp == [name |-> "none", tok |-> "", id |-> 0]
Ops ==
    {[name |-> n, tok |-> t, id |-> 0] : n \in {"tokenize", "token_to_id"}, t \in Tokens}
    \cup {[name |-> "id_to_token", tok |-> "", id |-> i] : i \in Ids}
    \cup {[name |-> n, tok |-> "", id |-> 0] :
            n \in {"get_vocab", "get_vocab_size", "save", "get_trainer", "class_for", "bpe_unk_token"}}

NoRes == [kind |-> "none", val |-> {}]
Value(x) == [kind |-> "value", val |-> {x}]
Panic == [kind |-> "panic", val |-> {}]

EmptyCache == [w \in {} |-> <<>>]

Init ==
    /\ ctor = None
    /\ model = None
    /\ klass = ""
    /\ readers = {}
    /\ writer = None
    /\ poisoned = FALSE
    /\ pc = [t \in Threads |-> "idle"]
    /\ op = [t \in Threads |-> NoOp]
    /\ res = [t \in Threads |-> NoRes]
    /\ nops = [t \in Threads |-> 0]
    /\ cache = EmptyCache
    /\ probe = None

\* ----------------------------------------------------------- construction
\* A constructor call and `impl From<I> for RbModel`: on Ok the model is
\* wrapped in a new Arc<RwLock<..>> and the handle is given its host class.
DoConstruct(c, ext) ==
    /\ LET r == Construct(c, ext)
       IN  /\ ctor' = Some([call |-> c, ext |-> ext, ok |-> r.ok, err |-> r.err, trace |-> r.trace])
           /\ model' = r.model
           /\ klass' = IF r.ok THEN ClassFor(Get(r.model)) ELSE ""
    /\ UNCHANGED <<lockVars, threadVars, cache, probe>>

ConstructAny == ctor = None /\ \E c \in Calls, ext \in Exts : DoConstruct(c, ext)

TwoTokens == [t \in Tokens |-> IF t = "a" THEN 0 ELSE 1]
SampleCalls ==
    {MkCall("BPE.new", Some(TwoTokens), Some(<<"ab">>), [k \in {"unk_token"} |-> "good"], None, None, None, NoFile),
     MkCall("BPE.new", None, None, EmptyKwargs, None, None, None, NoFile),
     MkCall("Unigram.new", None, None, EmptyKwargs, Some(<<"a", "b">>), Some(0), None, NoFile),
     MkCall("WordLevel.new", Some([t \in {"a"} |-> 0]), None, EmptyKwargs, None, None, None, NoFile),
     MkCall("WordPiece.new", Some(TwoTokens), None, EmptyKwargs, None, None, None, NoFile)}
SampleExt == [buildOk |-> TRUE, order |-> <<"a", "b">>]

ConstructSample == ctor = None /\ \E c \in SampleCalls : DoConstruct(c, SampleExt)

\* The caller looks a token up and looks the id it got up again.
RoundTrip ==
    /\ model # None
    /\ \E t \in Tokens :
         LET m == Get(model)
             id == TokenToId(m, t)
         IN  probe' = Some([token |-> t, id |-> id,
                            back |-> IF IsSome(id) THEN IdToToken(m, Get(id)) ELSE None])
    /\ UNCHANGED <<ctor, model, klass, lockVars, threadVars, cache>>

\* ------------------------------------------------------------- the lock
\* Every method taking write().
LockModeAllWrite(name) == "write"

\* self.model.read() in every Model method and in class_for;
\* self.model.write() in getter!.
LockMode(name) == IF name = "bpe_unk_token" THEN "write" ELSE "read"

\* A lock that excludes nobody.
CanAcquireNoExclusion(mode) == TRUE

\* RwLock: a read guard excludes a writer, a write guard excludes everyone.
CanAcquire(mode) ==
    IF mode = "write" THEN writer = None /\ readers = {} ELSE writer = None

\* unwrap_or_else(|e| e.into_inner()): the poison is ignored.
UnwrapIntoInner(p) == FALSE

\* LockResult::unwrap(): panics when the lock is poisoned.
Unwrap(p) == p

\* A read guard that outlives the method (leaked).
KeepGuard(rs, t) == rs

\* The read guard is dropped when the method's expression has been evaluated.
DropReadGuard(rs, t) == rs \ {t}

\* ------------------------------------------------------------ operations
\* tokenize on BPE consults and fills the merge cache (interior to the
\* variant); every other result is a function of the model alone.
TokenizeResult(m, c, w) == IF m.variant = "BPE" /\ w \in DOMAIN c THEN c[w] ELSE Segment(m, w)
CacheAfter(m, c, w) ==
    IF m.variant = "BPE" /\ w \notin DOMAIN c
    THEN [x \in DOMAIN c \cup {w} |-> IF x = w THEN Segment(m, w) ELSE c[x]]
    ELSE c

ReadResult(m, c, o) ==
    CASE o.name = "tokenize" -> Value(TokenizeResult(m, c, o.tok))
      [] o.name = "token_to_id" -> Value(TokenToId(m, o.tok))
      [] o.name = "id_to_token" -> Value(IdToToken(m, o.id))
      [] o.name = "get_vocab" -> Value(GetVocab(m))
      [] o.name = "get_vocab_size" -> Value(GetVocabSize(m))
      [] o.name = "save" -> Value(SavePaths(m))
      [] o.name = "get_trainer" -> Value(GetTrainer(m))
      [] o.name = "class_for" -> Value(ClassFor(m))

\* The methods `models` defines: unk_token exists on the BPE class only, so
\* the host dispatches it only to a handle whose class is BPE.
HostDispatch(o) == o.name = "bpe_unk_token" => klass = "BPE"

Invoke(t, o) ==
    /\ pc[t] = "idle"
    /\ model # None
    /\ nops[t] < MaxOps
    /\ pc' = [pc EXCEPT ![t] = "lock"]
    /\ op' = [op EXCEPT ![t] = o]
    /\ res' = [res EXCEPT ![t] = NoRes]
    /\ nops' = [nops EXCEPT ![t] = @ + 1]
    /\ UNCHANGED <<ctor, model, klass, lockVars, cache, probe>>

\* An operation invoked through the host's method table.
Call(t) == \E o \in Ops : HostDispatch(o) /\ Invoke(t, o)

\* An operation invoked from Rust: bpe_unk_token is a pub fn of RbModel.
CallDirect(t) == \E o \in Ops : Invoke(t, o)

\* read().unwrap() / write().unwrap(): blocks until the lock is free; on a
\* poisoned lock the guard comes back inside the error and is dropped by
\* the panic.
Acquire(t) ==
    /\ pc[t] = "lock"
    /\ CanAcquire(LockMode(op[t].name))
    /\ IF Unwrap(poisoned)
       THEN /\ pc' = [pc EXCEPT ![t] = "idle"]
            /\ res' = [res EXCEPT ![t] = Panic]
            /\ UNCHANGED <<readers, writer>>
       ELSE /\ pc' = [pc EXCEPT ![t] = "cs"]
            /\ res' = res
            /\ IF LockMode(op[t].name) = "write"
               THEN writer' = Some(t) /\ readers' = readers
               ELSE readers' = readers \cup {t} /\ writer' = writer
    /\ UNCHANGED <<ctor, model, klass, poisoned, op, nops, cache, probe>>

\* The body of the operation under the guard, and the guard's drop. In
\* getter! a variant other than BPE reaches unreachable!(): the panic drops
\* the write guard and poisons the lock.
Body(t) ==
    /\ pc[t] = "cs"
    /\ LET m == Get(model)
           o == op[t]
           panics == o.name = "bpe_unk_token" /\ m.variant # "BPE"
       IN  /\ res' = [res EXCEPT ![t] = IF o.name = "bpe_unk_token"
                                         THEN IF panics THEN Panic ELSE Value(UnkToken(m))
                                         ELSE ReadResult(m, cache, o)]
           /\ cache' = IF o.name = "tokenize" THEN CacheAfter(m, cache, o.tok) ELSE cache
           /\ poisoned' = (poisoned \/ (panics /\ writer = Some(t)))
    /\ readers' = DropReadGuard(readers, t)
    /\ writer' = IF writer = Some(t) THEN None ELSE writer
    /\ pc' = [pc EXCEPT ![t] = "idle"]
    /\ UNCHANGED <<ctor, model, klass, op, nops, probe>>

\* ---------------------------------------------------------- specifications
\* Construction with every enumerated call, then lookups by the caller.
NextCtor == ConstructAny \/ RoundTrip
SpecCtor == Init /\ [][NextCtor]_vars

\* Threads sharing one handle, operations dispatched by the host.
Next == ConstructSample \/ \E t \in Threads : Call(t) \/ Acquire(t) \/ Body(t)
Spec == Init /\ [][Next]_vars

\* Threads sharing one handle, operations called from Rust.
NextDirect == ConstructSample \/ \E t \in Threads : CallDirect(t) \/ Acquire(t) \/ Body(t)
SpecDirect == Init /\ [][NextDirect]_vars

\* A thread that holds or requests the lock is scheduled again.
Fairness == \A t \in Threads : WF_vars(Acquire(t)) /\ WF_vars(Body(t))
SpecLive == Init /\ [][Next]_vars /\ Fairness

\* ------------------------------------------------------ construction claims
IsFromFile(c) == c.entry \in {"BPE.from_file", "WordLevel.from_file", "WordPiece.from_file"}
TakesKwargs(c) == c.entry \in {"BPE.new", "BPE.from_file", "WordPiece.new", "WordPiece.from_file"}
ReachesWithBuilder(c) == TakesKwargs(c) /\ (IsFromFile(c) => c.file.status = "ok")
Recognized(c) == IF c.entry \in {"BPE.new", "BPE.from_file"} THEN Range(BPEKeys) ELSE Range(WordPieceKeys)
HasUnknownKey(c) == DOMAIN c.kwargs \ Recognized(c) # {}
HasBadValue(c) == \E k \in DOMAIN c.kwargs \cap Recognized(c) : c.kwargs[k] = "bad"
OptionsValid(c) == ~HasUnknownKey(c) /\ ~HasBadValue(c)
\* The in-memory call a from_file call continues with once the file is parsed.
AsInMemory(c) ==
    CASE c.entry = "BPE.from_file" ->
            MkCall("BPE.new", Some(c.file.vocab), Some(c.file.merges), c.kwargs, None, None, None, NoFile)
      [] c.entry = "WordLevel.from_file" ->
            MkCall("WordLevel.new", Some(c.file.vocab), None, EmptyKwargs, None, None, c.unk_token, NoFile)
      [] c.entry = "WordPiece.from_file" ->
            MkCall("WordPiece.new", Some(c.file.vocab), None, c.kwargs, None, None, None, NoFile)

\* C1: RbBPE::new fails with ArgumentError and returns no model whenever
\* exactly one of vocab and merges is supplied; with neither (and valid
\* options, the build step accepting) it returns an empty BPE model.
C1_OneOfVocabMergesIsArgumentError ==
    \A x \in ctor : x.call.entry = "BPE.new" =>
        /\ (IsSome(x.call.vocab) # IsSome(x.call.merges)) =>
               ~x.ok /\ x.err = "ArgumentError" /\ model = None
        /\ (x.call.vocab = None /\ x.call.merges = None /\ OptionsValid(x.call) /\ x.ext.buildOk) =>
               /\ x.ok
               /\ \A m \in model : m.variant = "BPE" /\ m.vocab = EmptyVocab /\ m.merges = <<>>

\* C2 (as stated): with_builder called with a key outside the recognized set
\* fails with ArgumentError whatever the other keys and values are, and the
\* build step is not reached.
C2_UnknownKeyIsArgumentError ==
    \A x \in ctor : (ReachesWithBuilder(x.call) /\ HasUnknownKey(x.call)) =>
        ~x.ok /\ x.err = "ArgumentError" /\ "build" \notin Range(x.trace)

\* C2 (amended): with_builder called with a key outside the recognized set
\* fails, no model is returned and the build step is not reached; the error
\* is the conversion error (TypeError) when a recognized key carries a value
\* that does not convert to the option's type, and ArgumentError otherwise.
C2_UnknownKeyFailsBeforeBuild ==
    \A x \in ctor : (ReachesWithBuilder(x.call) /\ HasUnknownKey(x.call)) =>
        /\ ~x.ok
        /\ model = None
        /\ "build" \notin Range(x.trace)
        /\ x.err = IF HasBadValue(x.call) THEN "TypeError" ELSE "ArgumentError"

C2_Witness ==
    \E x \in ctor : /\ ReachesWithBuilder(x.call) /\ HasUnknownKey(x.call)
                    /\ \E k \in DOMAIN x.call.kwargs \cap Recognized(x.call) : x.call.kwargs[k] = "good"
                    /\ x.err = "ArgumentError"

\* C3: RbUnigram::new with unk_id and no vocab fails with ArgumentError and
\* yields no model; with neither it yields the default model; exactly the
\* calls that supply vocab reach Unigram::from, and its failure (an unk_id
\* that is no index of vocab) is the constructor's failure.
C3_UnigramArguments ==
    \A x \in ctor : x.call.entry = "Unigram.new" =>
        /\ (x.call.list = None /\ IsSome(x.call.unk_id)) =>
               ~x.ok /\ x.err = "ArgumentError" /\ model = None
        /\ (x.call.list = None /\ x.call.unk_id = None) => x.ok /\ model = Some(UnigramDefault)
        /\ IsSome(x.call.list) <=> "Unigram::from" \in Range(x.trace)
        /\ (IsSome(x.call.list) /\ IsSome(x.call.unk_id) /\ Get(x.call.unk_id) >= Len(Get(x.call.list))) =>
               ~x.ok /\ model = None
        /\ (IsSome(x.call.list) /\ (IsSome(x.call.unk_id) => Get(x.call.unk_id) < Len(Get(x.call.list)))) =>
               x.ok /\ model # None

C3_Witness ==
    \E x \in ctor : /\ x.call.entry = "Unigram.new" /\ x.call.list = None /\ IsSome(x.call.unk_id)
                    /\ x.err = "ArgumentError"

\* C4: a constructor call ends either with a whole model in a new, unlocked
\* handle or with an error and no handle; from_file returns the reader's
\* error before any builder step, and on a parsed file gives exactly what
\* the in-memory constructor gives for the parsed tables.
C4_ConstructionNonPartial ==
    \A x \in ctor :
        /\ x.ok <=> model # None
        /\ x.ok <=> x.err = ""
        /\ x.ok => /\ \A m \in model : klass = ClassFor(m) /\ DOMAIN m.vocab_r = {m.vocab[t] : t \in DOMAIN m.vocab}
                   /\ readers = {} /\ writer = None /\ ~poisoned
        /\ ~x.ok => klass = ""
        /\ (IsFromFile(x.call) /\ x.call.file.status # "ok") =>
               ~x.ok /\ x.trace = <<"read_file">> /\ x.err = ReadError(x.call.file)
        /\ (IsFromFile(x.call) /\ x.call.file.status = "ok") =>
               LET r == Construct(AsInMemory(x.call), x.ext)
               IN  x.ok = r.ok /\ x.err = r.err /\ model = r.model /\ x.trace = <<"read_file">> \o r.trace

C4_Witness ==
    \E x \in ctor : /\ x.call.entry = "BPE.from_file" /\ x.call.file.status = "malformed"
                    /\ ~x.ok /\ model = None

\* C9: for every model construction accepts, every token of get_vocab maps
\* to an id that maps back to it, every id that maps to a token is that
\* token's id, and get_vocab_size is the number of entries of get_vocab.
C9_LookupsAreInverse ==
    \A m \in model :
        /\ \A p \in probe : p.token \in DOMAIN GetVocab(m) => p.back = Some(p.token)
        /\ \A i \in 0 .. MaxId + MaxUnigram :
               IsSome(IdToToken(m, i)) => TokenToId(m, Get(IdToToken(m, i))) = Some(i)
        /\ GetVocabSize(m) = Cardinality(DOMAIN GetVocab(m))

\* -------------------------------------------------------- handle claims
TraitOps == {"tokenize", "token_to_id", "id_to_token", "get_vocab", "get_vocab_size", "save", "get_trainer"}
ReadOnlyOps == {"tokenize", "token_to_id", "id_to_token", "get_vocab", "get_vocab_size"}
Holds(t) == t \in readers \/ writer = Some(t)
Returns(t) == pc[t] # "idle" /\ pc'[t] = "idle"

C6_ReadersIsolated ==
    /\ ~(readers # {} /\ writer # None)
    /\ Cardinality(writer) <= 1
    /\ \A t \in Threads : Holds(t) => pc[t] = "cs"
    /\ \A t \in Threads :
           (pc[t] = "idle" /\ op[t].name \in ReadOnlyOps /\ res[t].kind = "value") =>
               res[t] = ReadResult(Get(model), EmptyCache, op[t])

C6_Witness ==
    /\ klass = "BPE"
    /\ \E t, u \in Threads :
           /\ t # u /\ t \in readers /\ op[t].name = "tokenize"
           /\ pc[u] = "idle" /\ op[u].name = "tokenize" /\ res[u].kind = "value" /\ op[u].tok \in DOMAIN cache

\* C7: once the lock is poisoned (an operation panicked holding the write
\* guard) it stays poisoned, and every operation that returns afterwards, on
\* any clone of the handle, returns by panicking.
C7_PoisonIsFinal ==
    [][/\ poisoned => poisoned'
       /\ \A t \in Threads : (poisoned /\ Returns(t)) => res'[t] = Panic
       /\ \A t \in Threads : (poisoned /\ pc[t] = "lock") => pc'[t] # "cs"]_vars

C7_Witness ==
    /\ poisoned
    /\ \E t \in Threads : pc[t] = "idle" /\ op[t].name \in TraitOps \cup {"class_for"} /\ res[t] = Panic

C10_UnkTokenOnlyOnBPE ==
    /\ [](\A m \in model :
             /\ klass = ClassFor(m)
             /\ klass = m.variant
             /\ \A t \in Threads :
                    /\ op[t].name = "bpe_unk_token" => m.variant = "BPE"
                    /\ (pc[t] = "idle" /\ op[t].name = "class_for" /\ res[t].kind = "value") => res[t].val = {klass}
                    /\ res[t] # Panic
             /\ ~poisoned)
    /\ [][/\ model # None => model' = model
          /\ \A t \in Threads : (Returns(t) /\ op[t].name = "bpe_unk_token") =>
                 cache' = cache /\ res'[t] = Value(UnkToken(Get(model)))]_vars

C10_Witness ==
    \E t \in Threads : pc[t] = "idle" /\ op[t].name = "bpe_unk_token" /\ res[t] = Value(Some("good"))

====
